---------------------------- MODULE Spec2Model ----------------------------
(***************************************************************************)
(* A model of the extraction client of article-extractor                   *)
(* (utils/ai_processor.py): AIProcessor.extract_structure, the two         *)
(* provider retry routines and the response parser; and of its text        *)
(* chunker (utils/text_chunker.py): TextChunker and its methods.  Spec is  *)
(* the extraction client's specification, ChunkerSpec the chunker's,       *)
(* ParserSpec that of the response parser with the JSON formatter          *)
(* (utils/output_formatter.py), and ThreadSpec that of two threads that    *)
(* share one chunker.                                                      *)
(*                                                                         *)
(* Python strings are TLA+ strings; TLC evaluates Len, \o and SubSeq on    *)
(* them, which is all the string helpers below use.  Waiting times are     *)
(* counted in half seconds, so that initial_wait_time = 0.5 s is the       *)
(* integer 1 and initial_wait_time = 1 s is the integer 2.                 *)
(***************************************************************************)
EXTENDS Integers, Sequences, FiniteSets, TLC

(***************************************************************************)
(* Optional values: Python's None and a present value.                     *)
(***************************************************************************)
NoneStr == [some |-> FALSE, val |-> ""]
SomeStr(s) == [some |-> TRUE, val |-> s]

(***************************************************************************)
(* Python str operations.                                                  *)
(***************************************************************************)
CharAt(s, i) == SubSeq(s, i, i)

\* s[i:] with a 0-based Python index i >= 0
StrFrom(s, i) == SubSeq(s, i + 1, Len(s))

\* s[:-n] for n >= 1
StrDropLast(s, n) == SubSeq(s, 1, Len(s) - n)

startswith(s, p) == Len(p) <= Len(s) /\ SubSeq(s, 1, Len(p)) = p

endswith(s, p) == Len(p) <= Len(s) /\ SubSeq(s, Len(s) - Len(p) + 1, Len(s)) = p

\* kw in s
StrContains(s, kw) ==
    \E i \in 1..(Len(s) - Len(kw) + 1) : SubSeq(s, i, i + Len(kw) - 1) = kw

WHITESPACE == {" ", "\t", "\n", "\r"}

RECURSIVE lstrip(_)
lstrip(s) ==
    IF Len(s) > 0 /\ CharAt(s, 1) \in WHITESPACE
    THEN lstrip(SubSeq(s, 2, Len(s)))
    ELSE s

RECURSIVE rstrip(_)
rstrip(s) ==
    IF Len(s) > 0 /\ CharAt(s, Len(s)) \in WHITESPACE
    THEN rstrip(SubSeq(s, 1, Len(s) - 1))
    ELSE s

strip(s) == rstrip(lstrip(s))

UpperCase == "ABCDEFGHIJKLMNOPQRSTUVWXYZ"
LowerCase == "abcdefghijklmnopqrstuvwxyz"

LowerChar(c) ==
    IF \E i \in 1..Len(UpperCase) : CharAt(UpperCase, i) = c
    THEN CharAt(LowerCase, CHOOSE i \in 1..Len(UpperCase) : CharAt(UpperCase, i) = c)
    ELSE c

RECURSIVE lower(_)
lower(s) ==
    IF Len(s) = 0 THEN ""
    ELSE LowerChar(CharAt(s, 1)) \o lower(SubSeq(s, 2, Len(s)))


\* str.find(sub, start) with 0-based positions; -1 when absent
StrFind(s, sub, start) ==
    LET hits == {i \in start..(Len(s) - Len(sub)) : SubSeq(s, i + 1, i + Len(sub)) = sub}
    IN  IF hits = {} THEN -1
        ELSE CHOOSE i \in hits : \A j \in hits : i <= j

\* the last 0-based position of sub in s; -1 when absent
StrRFind(s, sub) ==
    LET hits == {i \in 0..(Len(s) - Len(sub)) : SubSeq(s, i + 1, i + Len(sub)) = sub}
    IN  IF hits = {} THEN -1
        ELSE CHOOSE i \in hits : \A j \in hits : j <= i

(***************************************************************************)
(* Exceptions: the class and str(e).  Every class below derives from       *)
(* Python's Exception.                                                     *)
(***************************************************************************)
Exc(type, msg) == [type |-> type, msg |-> msg]

NoExc == [some |-> FALSE, val |-> Exc("", "")]
SomeExc(e) == [some |-> TRUE, val |-> e]

(***************************************************************************)
(* json.loads.  A decoded value is kept as its kind, its compact           *)
(* serialisation (whitespace outside strings dropped) and its number of    *)
(* items (characters of a string, elements of an array, members of an      *)
(* object).  Modelled: null, true, false, integers, strings without        *)
(* escapes, arrays and objects; str(e) of a JSONDecodeError is its message *)
(* without the position suffix.                                            *)
(***************************************************************************)
JVal(kind, repr, n) == [kind |-> kind, repr |-> repr, n |-> n]
JNull == JVal("null", "null", 0)
EmptyDict == JVal("object", "{}", 0)

NoneVal == [some |-> FALSE, val |-> JNull]
SomeVal(v) == [some |-> TRUE, val |-> v]

ScanOk(v, end) == [ok |-> TRUE, val |-> v, end |-> end, err |-> ""]
ScanFail(msg) == [ok |-> FALSE, val |-> JNull, end |-> 0, err |-> msg]

DIGITS == {"0", "1", "2", "3", "4", "5", "6", "7", "8", "9"}
CONTROL == {"\t", "\n", "\r"}

\* WHITESPACE.match(s, i).end(), positions 1-based
RECURSIVE SkipWs(_, _)
SkipWs(s, i) ==
    IF i <= Len(s) /\ CharAt(s, i) \in WHITESPACE THEN SkipWs(s, i + 1) ELSE i

RECURSIVE DigitsEnd(_, _)
DigitsEnd(s, i) ==
    IF i <= Len(s) /\ CharAt(s, i) \in DIGITS THEN DigitsEnd(s, i + 1) ELSE i

\* the string whose opening quote is at position i - 1
scanstring(s, i) ==
    LET q == StrFind(s, "\"", i - 1)
    IN  IF q = -1 THEN ScanFail("Unterminated string starting at")
        ELSE IF \E j \in i..q : CharAt(s, j) \in CONTROL
             THEN ScanFail("Invalid control character at")
             ELSE ScanOk(JVal("string", SubSeq(s, i - 1, q + 1), q + 1 - i), q + 2)

\* NUMBER_RE matched at position i: -?(0|[1-9][0-9]*)
MatchNumber(s, i) ==
    LET d == IF i <= Len(s) /\ CharAt(s, i) = "-" THEN i + 1 ELSE i
        e == IF d <= Len(s) /\ CharAt(s, d) = "0" THEN d + 1 ELSE DigitsEnd(s, d)
    IN  IF e = d THEN ScanFail("Expecting value")
        ELSE LET text == SubSeq(s, i, e - 1)
             IN  ScanOk(JVal("number", IF text = "-0" THEN "0" ELSE text, e - d), e)

IsLiteral(s, i, lit) ==
    i + Len(lit) - 1 <= Len(s) /\ SubSeq(s, i, i + Len(lit) - 1) = lit

RECURSIVE scan_once(_, _)
RECURSIVE ObjectMembers(_, _, _, _)
RECURSIVE ArrayItems(_, _, _, _)

\* the members of an object from the first character of a key (after its quote)
ObjectMembers(s, i, acc, n) ==
    LET k == scanstring(s, i)
    IN  IF ~k.ok THEN k
        ELSE
        LET a == SkipWs(s, k.end)
        IN  IF a > Len(s) \/ CharAt(s, a) # ":" THEN ScanFail("Expecting ':' delimiter")
            ELSE
            LET v == scan_once(s, SkipWs(s, a + 1))
            IN  IF ~v.ok THEN v
                ELSE
                LET b == SkipWs(s, v.end)
                    acc2 == acc \o (IF n > 0 THEN "," ELSE "")
                                \o k.val.repr \o ":" \o v.val.repr
                IN  IF b > Len(s) THEN ScanFail("Expecting ',' delimiter")
                    ELSE IF CharAt(s, b) = "}"
                    THEN ScanOk(JVal("object", "{" \o acc2 \o "}", n + 1), b + 1)
                    ELSE IF CharAt(s, b) # "," THEN ScanFail("Expecting ',' delimiter")
                    ELSE
                    LET c == SkipWs(s, b + 1)
                    IN  IF c > Len(s) \/ CharAt(s, c) # "\""
                        THEN ScanFail("Expecting property name enclosed in double quotes")
                        ELSE ObjectMembers(s, c + 1, acc2, n + 1)

\* json.decoder.JSONObject, from the character after "{"
JSONObject(s, i) ==
    LET j == SkipWs(s, i)
    IN  IF j <= Len(s) /\ CharAt(s, j) = "}" THEN ScanOk(EmptyDict, j + 1)
        ELSE IF j > Len(s) \/ CharAt(s, j) # "\""
        THEN ScanFail("Expecting property name enclosed in double quotes")
        ELSE ObjectMembers(s, j + 1, "", 0)

\* the elements of an array from the first character of an element
ArrayItems(s, i, acc, n) ==
    LET v == scan_once(s, i)
    IN  IF ~v.ok THEN v
        ELSE
        LET b == SkipWs(s, v.end)
            acc2 == acc \o (IF n > 0 THEN "," ELSE "") \o v.val.repr
        IN  IF b > Len(s) THEN ScanFail("Expecting ',' delimiter")
            ELSE IF CharAt(s, b) = "]"
            THEN ScanOk(JVal("array", "[" \o acc2 \o "]", n + 1), b + 1)
            ELSE IF CharAt(s, b) # "," THEN ScanFail("Expecting ',' delimiter")
            ELSE ArrayItems(s, SkipWs(s, b + 1), acc2, n + 1)

\* json.decoder.JSONArray, from the character after "["
JSONArray(s, i) ==
    LET j == SkipWs(s, i)
    IN  IF j <= Len(s) /\ CharAt(s, j) = "]" THEN ScanOk(JVal("array", "[]", 0), j + 1)
        ELSE ArrayItems(s, j, "", 0)

\* json.scanner.py_make_scanner._scan_once at position i
scan_once(s, i) ==
    IF i > Len(s) THEN ScanFail("Expecting value")
    ELSE
    LET c == CharAt(s, i)
    IN  CASE c = "\"" -> scanstring(s, i + 1)
          [] c = "{" -> JSONObject(s, i + 1)
          [] c = "[" -> JSONArray(s, i + 1)
          [] IsLiteral(s, i, "null") -> ScanOk(JNull, i + 4)
          [] IsLiteral(s, i, "true") -> ScanOk(JVal("bool", "true", 1), i + 4)
          [] IsLiteral(s, i, "false") -> ScanOk(JVal("bool", "false", 0), i + 5)
          [] OTHER -> MatchNumber(s, i)

\* json.loads(s): the value, or the JSONDecodeError message
loads(s) ==
    LET r == scan_once(s, SkipWs(s, 1))
    IN  IF ~r.ok THEN r
        ELSE IF SkipWs(s, r.end) <= Len(s) THEN ScanFail("Extra data")
        ELSE r

\* bool(v) of a decoded value
Truthy(v) ==
    CASE v.kind = "null" -> FALSE
      [] v.kind = "bool" -> v.repr = "true"
      [] v.kind = "number" -> v.repr # "0"
      [] OTHER -> v.n > 0


(***************************************************************************)
(* AIProcessor._parse_json_response: the decoded value, or the exception   *)
(* it raises.  response is None when the provider's reply holds no text.   *)
(***************************************************************************)
Parsed(v) == [ok |-> TRUE, val |-> v, exc |-> Exc("", "")]
ParseRaises(e) == [ok |-> FALSE, val |-> JNull, exc |-> e]

\* A TLA+ string cannot hold a backquote: "~" stands for it in every text of
\* this module, and no text uses "~" for anything else.
BACKQUOTE == "~"
FENCE == BACKQUOTE \o BACKQUOTE \o BACKQUOTE
FENCE_JSON == FENCE \o "json"

\* a fence removal that cuts one character too many at the end
StripFencesCutsFour(stripped) ==
    LET c1 == IF startswith(stripped, FENCE_JSON) THEN StrFrom(stripped, 7) ELSE stripped
        c2 == IF startswith(c1, FENCE) THEN StrFrom(c1, 3) ELSE c1
        c3 == IF endswith(c2, FENCE) THEN StrDropLast(c2, 4) ELSE c2
    IN  strip(c3)

\* the markdown fence removal
StripFences(stripped) ==
    LET c1 == IF startswith(stripped, FENCE_JSON) THEN StrFrom(stripped, 7) ELSE stripped
        c2 == IF startswith(c1, FENCE) THEN StrFrom(c1, 3) ELSE c1
        c3 == IF endswith(c2, FENCE) THEN StrDropLast(c2, 3) ELSE c2
    IN  strip(c3)

\* re.search(r'\{.*\}', cleaned, re.DOTALL): the matched span, None without a match
BraceSpan(cleaned) ==
    LET first == StrFind(cleaned, "{", 0)
        last == StrRFind(cleaned, "}")
    IN  IF first # -1 /\ last > first
        THEN SomeStr(SubSeq(cleaned, first + 1, last + 1))
        ELSE NoneStr

_parse_json_response(response) ==
    IF ~response.some
    THEN ParseRaises(Exc("AttributeError", "'NoneType' object has no attribute 'strip'"))
    ELSE
    LET cleaned == StripFences(strip(response.val))
        direct == loads(cleaned)
    IN  IF direct.ok THEN Parsed(direct.val)
        ELSE
        LET json_match == BraceSpan(cleaned)
        IN  IF json_match.some
            THEN LET inner == loads(json_match.val)
                 IN  IF inner.ok THEN Parsed(inner.val)
                     ELSE ParseRaises(Exc("JSONDecodeError", inner.err))
            ELSE ParseRaises(Exc("ValueError",
                                 "Failed to parse JSON response: " \o direct.err))

(***************************************************************************)
(* user_prompt_template.format(article_text=article_text): the rendered    *)
(* prompt, or the exception str.format raises.  "{{" and "}}" are literal  *)
(* braces, "{name}" a replacement field; a field name ends at the first    *)
(* ":" or "!".  A conversion or a format specification on article_text is  *)
(* rejected as Python rejects one that is no valid specification.          *)
(***************************************************************************)
Rendered(text) == [ok |-> TRUE, val |-> text, exc |-> Exc("", "")]
RenderRaises(e) == [ok |-> FALSE, val |-> "", exc |-> e]

\* the field whose text (between the braces) is field
FormatField(field, article_text) ==
    LET cuts == {i \in 1..Len(field) : CharAt(field, i) \in {":", "!"}}
        cut == IF cuts = {} THEN Len(field) + 1
               ELSE CHOOSE i \in cuts : \A j \in cuts : i <= j
        name == SubSeq(field, 1, cut - 1)
    IN  IF StrContains(field, "{")
        THEN RenderRaises(Exc("ValueError", "unexpected '{' in field name"))
        ELSE IF name = "" \/ \A i \in 1..Len(name) : CharAt(name, i) \in DIGITS
        THEN RenderRaises(Exc("IndexError",
                 "Replacement index 0 out of range for positional args tuple"))
        ELSE IF name # "article_text"
        THEN RenderRaises(Exc("KeyError", "'" \o name \o "'"))
        ELSE IF cut <= Len(field)
        THEN RenderRaises(Exc("ValueError", "Invalid format specifier"))
        ELSE Rendered(article_text)

RECURSIVE FormatFrom(_, _, _, _)
FormatFrom(template, i, acc, article_text) ==
    IF i > Len(template) THEN Rendered(acc)
    ELSE
    LET c == CharAt(template, i)
        next == IF i < Len(template) THEN CharAt(template, i + 1) ELSE ""
    IN  IF c = "{" /\ next = "{" THEN FormatFrom(template, i + 2, acc \o "{", article_text)
        ELSE IF c = "}" /\ next = "}"
        THEN FormatFrom(template, i + 2, acc \o "}", article_text)
        ELSE IF c = "}"
        THEN RenderRaises(Exc("ValueError", "Single '}' encountered in format string"))
        ELSE IF c = "{" /\ i = Len(template)
        THEN RenderRaises(Exc("ValueError", "Single '{' encountered in format string"))
        ELSE IF c = "{"
        THEN LET close == StrFind(template, "}", i)
             IN  IF close = -1
                 THEN RenderRaises(Exc("ValueError", "expected '}' before end of string"))
                 ELSE LET f == FormatField(SubSeq(template, i + 1, close), article_text)
                      IN  IF f.ok
                          THEN FormatFrom(template, close + 2, acc \o f.val, article_text)
                          ELSE f
        ELSE FormatFrom(template, i + 1, acc \o c, article_text)

format(template, article_text) == FormatFrom(template, 1, "", article_text)


(***************************************************************************)
(* The extraction client.                                                  *)
(***************************************************************************)
VARIABLES
    model_type,            \* self.model_type
    max_retries,           \* self.max_retries
    initial_wait_time,     \* self.initial_wait_time, in half seconds
    article_text,          \* extract_structure's arguments
    user_prompt_template,
    pc,                    \* where the running extract_structure call stands
    user_prompt,           \* the rendered prompt
    attempt,               \* the retry loop's counter
    last_exception,        \* the retry routine's last_exception
    response,              \* the text the retry routine returned
    result,                \* what extract_structure returned: <<>> before it returns
    escaped,               \* an exception extract_structure let through, if any
    log                    \* the provider calls and the sleeps, in order

\* one TextChunker (utils/text_chunker.py) and the document it is used on
VARIABLES
    arg_chunk_size,        \* the constructor's arguments
    arg_chunk_overlap,
    chunk_size,            \* self.chunk_size
    chunk_overlap,         \* self.chunk_overlap
    doc_text,              \* the text every call is given
    chunker_pc,            \* where the chunker's caller stands
    frame,                 \* the locals of a running get_chunks_by_token_limit
    call                   \* the call made last and what it gave back

\* one use of the response parser, and of format_as_json on what it returns
VARIABLES
    reply,                 \* the JSON text and the reply text that wraps it
    parse_result,          \* what _parse_json_response gave for the reply text
    formatted,             \* what format_as_json gave for the parsed value
    parser_pc              \* where the parser's caller stands

\* two threads that call get_chunks_by_token_limit on the one TextChunker
VARIABLES
    thread_pc,             \* where each thread's call stands
    thread_frame           \* each call's arguments and locals

parser_vars == <<reply, parse_result, formatted, parser_pc>>

thread_vars == <<thread_pc, thread_frame>>

chunker_vars == <<arg_chunk_size, arg_chunk_overlap, chunk_size, chunk_overlap,
                  doc_text, chunker_pc, frame, call>>

extraction_vars == <<model_type, max_retries, initial_wait_time, article_text,
                     user_prompt_template, pc, user_prompt, attempt,
                     last_exception, response, result, escaped, log>>

vars == <<model_type, max_retries, initial_wait_time, article_text,
          user_prompt_template, pc, user_prompt, attempt, last_exception,
          response, result, escaped, log,
          arg_chunk_size, arg_chunk_overlap, chunk_size, chunk_overlap,
          doc_text, chunker_pc, frame, call,
          reply, parse_result, formatted, parser_pc,
          thread_pc, thread_frame>>

\* no call has been made yet
NoCall ==
    [op |-> "none", method |-> "", max_tokens |-> 0, outcome |-> "none",
     chunks |-> <<>>, meta |-> <<>>]

\* no get_chunks_by_token_limit call is running
NoFrame ==
    [estimated_char_limit |-> 0, original_size |-> 0,
     ends |-> TRUE, chunks |-> <<>>]

\* the extraction client's runs use no chunker
NoChunker ==
    /\ arg_chunk_size = 0
    /\ arg_chunk_overlap = 0
    /\ chunk_size = 0
    /\ chunk_overlap = 0
    /\ doc_text = ""
    /\ chunker_pc = "none"
    /\ frame = NoFrame
    /\ call = NoCall

\* the response parser is not used on its own
NoParser ==
    /\ reply = [raw |-> "", text |-> ""]
    /\ parse_result = ParseRaises(Exc("", ""))
    /\ formatted = ""
    /\ parser_pc = "none"

\* no thread calls the chunker
NoThreads ==
    /\ thread_pc = <<>>
    /\ thread_frame = <<>>

\* the largest max_retries a processor is constructed with
MaxRetries == 3

ModelTypes == {"gemini", "gpt4o-mini"}

\* initial_wait_time: 0.5 s and 1 s
InitialWaitTimes == {1, 2}

UserPromptTemplates ==
    { "Text: {article_text}",
      "{article_text} {{\"k\": 1}}",
      "{\"title\": 1} {article_text}",
      "{} {article_text}",
      "{article_text",
      "}" }

ArticleTexts == {"", "p53 {x}"}

\* str(e) of the errors a provider call raises
ErrorMessages ==
    { "503 Service Unavailable",
      "Gateway Timeout",
      "temporarily unable to process",
      "Invalid API key" }

\* the texts a provider call returns
ResponseBodies ==
    { "{\"title\": \"X\"}", "{}", "null", "[]", "0", "false", "\"\"", "[1]", "7",
      "not json", "", "Here: {\"a\": 1} done", "{\"a\": 1,}", "x {oops} y" }

ResponseTexts ==
    UNION { { b,
              FENCE_JSON \o "\n" \o b \o "\n" \o FENCE,
              FENCE \o "\n" \o b \o "\n" \o FENCE,
              " \n" \o FENCE_JSON \o b \o FENCE \o "\n ",
              FENCE_JSON \o "\n" \o b } : b \in ResponseBodies }

\* what one provider call does: it raises, or returns a reply whose text may be None
Raises(msg) == [raised |-> TRUE, msg |-> msg, text |-> NoneStr]
Returns(text) == [raised |-> FALSE, msg |-> "", text |-> text]

ProviderOutcomes ==
    {Raises(m) : m \in ErrorMessages}
        \cup {Returns(SomeStr(t)) : t \in ResponseTexts}
        \cup {Returns(NoneStr)}

\* the log's entries: a provider call with what it did, a sleep with its length
CallEntry(out) ==
    [op |-> "call", raised |-> out.raised, msg |-> out.msg, text |-> out.text, wait |-> 0]
SleepEntry(w) ==
    [op |-> "sleep", raised |-> FALSE, msg |-> "", text |-> NoneStr, wait |-> w]

Init ==
    /\ model_type \in ModelTypes
    /\ max_retries \in (-1)..MaxRetries
    /\ initial_wait_time \in InitialWaitTimes
    /\ article_text \in ArticleTexts
    /\ user_prompt_template \in UserPromptTemplates
    /\ pc = "render"
    /\ user_prompt = ""
    /\ attempt = 0
    /\ last_exception = NoExc
    /\ response = NoneStr
    /\ result = <<>>
    /\ escaped = NoExc
    /\ log = <<>>
    /\ NoChunker
    /\ NoParser
    /\ NoThreads

\* a success return without the "or {}" default: a null parse leaves data None
SuccessEnvelopeNoDefault(parsed, raw) ==
    [ success |-> TRUE,
      data |-> IF parsed.kind = "null" THEN NoneVal ELSE SomeVal(parsed),
      raw_response |-> raw,
      error |-> NoneStr,
      retry_count |-> 0 ]

\* the envelope of the success return
SuccessEnvelope(parsed, raw) ==
    [ success |-> TRUE,
      data |-> SomeVal(IF Truthy(parsed) THEN parsed ELSE EmptyDict),
      raw_response |-> raw,
      error |-> NoneStr,
      retry_count |-> 0 ]

\* an except branch that reports the retries the loop made
FailureEnvelopeCounted(e) ==
    [ success |-> FALSE,
      data |-> NoneVal,
      raw_response |-> NoneStr,
      error |-> SomeStr(e.msg),
      retry_count |-> attempt ]

\* the envelope of the except branch
FailureEnvelope(e) ==
    [ success |-> FALSE,
      data |-> NoneVal,
      raw_response |-> NoneStr,
      error |-> SomeStr(e.msg),
      retry_count |-> max_retries ]

\* the classes "except Exception" catches
ExceptionClasses ==
    { "Exception", "APIError", "AttributeError", "IndexError", "JSONDecodeError",
      "KeyError", "RuntimeError", "ValueError" }

\* "except ValueError" in place of "except Exception"
CatchesValueError(e) == e.type \in {"ValueError", "JSONDecodeError"}

Catches(e) == e.type \in ExceptionClasses

\* an exception e raised inside extract_structure's try block
RaisedInTry(e) ==
    /\ pc' = "done"
    /\ IF Catches(e)
       THEN result' = <<FailureEnvelope(e)>> /\ escaped' = NoExc
       ELSE result' = <<>> /\ escaped' = SomeExc(e)

\* the prompt rendering and the dispatch on model_type
Render ==
    /\ pc = "render"
    /\ LET r == format(user_prompt_template, article_text)
       IN  IF r.ok
           THEN /\ user_prompt' = r.val
                /\ pc' = "attempt"
                /\ UNCHANGED <<result, escaped>>
           ELSE /\ RaisedInTry(r.exc)
                /\ UNCHANGED user_prompt
    /\ UNCHANGED <<chunker_vars, parser_vars, thread_vars>>
    /\ UNCHANGED <<model_type, max_retries, initial_wait_time, article_text,
                   user_prompt_template, attempt, last_exception, response, log>>

GeminiKeywords == {"timeout", "connection", "rate", "429", "500", "503", "502"}
GptKeywords == {"timeout", "connection", "rate", "429", "500", "503", "502", "temporarily"}

\* is_retryable of _call_gemini_with_retry
GeminiIsRetryable(msg) == \E keyword \in GeminiKeywords : StrContains(lower(msg), keyword)

\* a routine that takes every error for a transient one
GptRetriesEverything(msg) == TRUE

\* is_retryable of _call_gpt_with_retry
GptIsRetryable(msg) == \E keyword \in GptKeywords : StrContains(lower(msg), keyword)

\* wait_time = initial_wait_time * (2 ** attempt)
WaitTime(n) == initial_wait_time * (2 ^ n)

\* a test that takes the round after the last for the last
IsAfterLastAttempt(n) == n = max_retries

\* the last allowed attempt: attempt == self.max_retries - 1
IsLastAttempt(n) == n = max_retries - 1

\* one pass of a retry loop's try/except: the provider call and what follows it
Attempt(out, is_retryable) ==
    /\ log' = Append(log, CallEntry(out))
    /\ IF ~out.raised
       THEN /\ response' = out.text
            /\ pc' = "parse"
            /\ UNCHANGED <<last_exception, result, escaped>>
       ELSE /\ last_exception' = SomeExc(Exc("APIError", out.msg))
            /\ IF ~is_retryable \/ IsLastAttempt(attempt)
               THEN RaisedInTry(Exc("APIError", out.msg))
               ELSE pc' = "sleep" /\ UNCHANGED <<result, escaped>>
            /\ UNCHANGED response
    /\ UNCHANGED <<chunker_vars, parser_vars, thread_vars>>
    /\ UNCHANGED <<model_type, max_retries, initial_wait_time, article_text,
                   user_prompt_template, user_prompt, attempt>>

\* time.sleep(wait_time) and the loop's next round
Backoff ==
    /\ log' = Append(log, SleepEntry(WaitTime(attempt)))
    /\ attempt' = attempt + 1
    /\ pc' = "attempt"
    /\ UNCHANGED <<chunker_vars, parser_vars, thread_vars>>
    /\ UNCHANGED <<model_type, max_retries, initial_wait_time, article_text,
                   user_prompt_template, user_prompt, last_exception, response,
                   result, escaped>>

\* the code after a retry loop that ran out of rounds
AfterLoop(api) ==
    /\ RaisedInTry(IF last_exception.some THEN last_exception.val
                   ELSE Exc("RuntimeError",
                            "Maximum retry attempts failed for " \o api \o " API"))
    /\ UNCHANGED <<chunker_vars, parser_vars, thread_vars>>
    /\ UNCHANGED <<model_type, max_retries, initial_wait_time, article_text,
                   user_prompt_template, user_prompt, attempt, last_exception,
                   response, log>>

GeminiAttempt ==
    /\ pc = "attempt" /\ model_type = "gemini" /\ attempt < max_retries
    /\ \E out \in ProviderOutcomes : Attempt(out, GeminiIsRetryable(out.msg))

GeminiBackoff == pc = "sleep" /\ model_type = "gemini" /\ Backoff

GeminiAfterLoop ==
    pc = "attempt" /\ model_type = "gemini" /\ attempt >= max_retries /\ AfterLoop("Gemini")

GptAttempt ==
    /\ pc = "attempt" /\ model_type # "gemini" /\ attempt < max_retries
    /\ \E out \in ProviderOutcomes : Attempt(out, GptIsRetryable(out.msg))

GptBackoff == pc = "sleep" /\ model_type # "gemini" /\ Backoff

GptAfterLoop ==
    pc = "attempt" /\ model_type # "gemini" /\ attempt >= max_retries /\ AfterLoop("GPT")

_call_gemini_with_retry == GeminiAttempt \/ GeminiBackoff \/ GeminiAfterLoop

_call_gpt_with_retry == GptAttempt \/ GptBackoff \/ GptAfterLoop

\* a parse step inside the retry loop: a text that does not parse is asked for again
ParseOrRetry ==
    /\ pc = "parse"
    /\ LET p == _parse_json_response(response)
       IN  IF p.ok
           THEN /\ result' = <<SuccessEnvelope(p.val, response)>>
                /\ pc' = "done"
                /\ UNCHANGED <<escaped, attempt>>
           ELSE IF IsLastAttempt(attempt)
           THEN RaisedInTry(p.exc) /\ UNCHANGED attempt
           ELSE /\ pc' = "attempt"
                /\ attempt' = attempt + 1
                /\ UNCHANGED <<result, escaped>>
    /\ UNCHANGED <<chunker_vars, parser_vars, thread_vars>>
    /\ UNCHANGED <<model_type, max_retries, initial_wait_time, article_text,
                   user_prompt_template, user_prompt, last_exception, response, log>>

\* the parse of the returned text and the success return
ParseAndReturn ==
    /\ pc = "parse"
    /\ LET p == _parse_json_response(response)
       IN  IF p.ok
           THEN /\ result' = <<SuccessEnvelope(p.val, response)>>
                /\ pc' = "done"
                /\ UNCHANGED escaped
           ELSE RaisedInTry(p.exc)
    /\ UNCHANGED <<chunker_vars, parser_vars, thread_vars>>
    /\ UNCHANGED <<model_type, max_retries, initial_wait_time, article_text,
                   user_prompt_template, user_prompt, attempt, last_exception,
                   response, log>>

extract_structure ==
    Render \/ _call_gemini_with_retry \/ _call_gpt_with_retry \/ ParseAndReturn

Next == extract_structure

Spec == Init /\ [][Next]_vars

(***************************************************************************)
(* TextChunker (utils/text_chunker.py).  The chunking methods are pure     *)
(* functions of the text and of the two fields they read, chunk_size and   *)
(* chunk_overlap, which are passed as size and overlap.  Python positions  *)
(* are 0-based, positions in a TLA+ string 1-based.                        *)
(***************************************************************************)
Min(a, b) == IF a <= b THEN a ELSE b

\* what a chunking method gives back: its list, or no return at all
Chunked(chunks) == [ends |-> TRUE, chunks |-> chunks]
RunsForever == [ends |-> FALSE, chunks |-> <<>>]

\* the while loop of chunk_by_characters from one value of start on.  With
\* chunk_size - chunk_overlap <= 0 start never grows, so the condition
\* start < len(text) that holds once holds for ever and the loop goes on
\* appending chunks.
RECURSIVE CharacterLoop(_, _, _, _, _)
CharacterLoop(text, size, overlap, start, chunks) ==
    IF ~(start < Len(text)) THEN Chunked(chunks)
    ELSE IF size - overlap <= 0 THEN RunsForever
    ELSE LET end == Min(start + size, Len(text))
             chunk == SubSeq(text, start + 1, end)
         IN  CharacterLoop(text, size, overlap, start + (size - overlap),
                           Append(chunks, chunk))

\* a window that stops once it has reached the end of the text: no trailing
\* fragments
RECURSIVE StopAtEndLoop(_, _, _, _, _)
StopAtEndLoop(text, size, overlap, start, chunks) ==
    IF ~(start < Len(text)) THEN Chunked(chunks)
    ELSE IF size - overlap <= 0 THEN RunsForever
    ELSE LET end == Min(start + size, Len(text))
             chunk == SubSeq(text, start + 1, end)
         IN  IF end = Len(text) THEN Chunked(Append(chunks, chunk))
             ELSE StopAtEndLoop(text, size, overlap, start + (size - overlap),
                                Append(chunks, chunk))

StopAtEndChunks(text, size, overlap) ==
    StopAtEndLoop(text, size, overlap, 0, <<>>)

chunk_by_characters(text, size, overlap) ==
    CharacterLoop(text, size, overlap, 0, <<>>)

\* the first position at or after i that holds no whitespace
RECURSIVE SpaceRunEnd(_, _)
SpaceRunEnd(text, i) ==
    IF i <= Len(text) /\ CharAt(text, i) \in WHITESPACE
    THEN SpaceRunEnd(text, i + 1)
    ELSE i

SENTENCE_END == {".", "!", "?"}

\* re.split(r'(?<=[.!?])\s+', text): the text is cut at every run of
\* whitespace that follows one of . ! ? ; from is where the running part
\* began and i the position the scan has reached
RECURSIVE SplitSentences(_, _, _)
SplitSentences(text, from, i) ==
    IF i > Len(text) THEN <<SubSeq(text, from, Len(text))>>
    ELSE IF /\ i > 1
            /\ CharAt(text, i - 1) \in SENTENCE_END
            /\ CharAt(text, i) \in WHITESPACE
         THEN LET j == SpaceRunEnd(text, i)
              IN  <<SubSeq(text, from, i - 1)>> \o SplitSentences(text, j, j)
         ELSE SplitSentences(text, from, i + 1)

\* the newlines that can close a match of \n\s*\n opened at position i
BreakEnds(text, i) ==
    {j \in (i + 1)..(SpaceRunEnd(text, i + 1) - 1) : CharAt(text, j) = "\n"}

\* re.split(r'\n\s*\n', text): a match opens at a newline and, \s* being
\* greedy, runs to the last newline of the whitespace that follows it
RECURSIVE SplitParagraphs(_, _, _)
SplitParagraphs(text, from, i) ==
    IF i > Len(text) THEN <<SubSeq(text, from, Len(text))>>
    ELSE IF CharAt(text, i) = "\n" /\ BreakEnds(text, i) # {}
         THEN LET j == CHOOSE e \in BreakEnds(text, i) :
                           \A o \in BreakEnds(text, i) : o <= e
              IN  <<SubSeq(text, from, i - 1)>>
                      \o SplitParagraphs(text, j + 1, j + 1)
         ELSE SplitParagraphs(text, from, i + 1)

\* [s.strip() for s in parts if s.strip()]
RECURSIVE StripKeep(_)
StripKeep(parts) ==
    IF parts = <<>> THEN <<>>
    ELSE LET s == strip(Head(parts))
         IN  (IF s # "" THEN <<s>> ELSE <<>>) \o StripKeep(Tail(parts))

Sentences(text) == StripKeep(SplitSentences(text, 1, 1))

Paragraphs(text) == StripKeep(SplitParagraphs(text, 1, 1))

\* sep.join(units)
RECURSIVE join(_, _)
join(sep, units) ==
    IF units = <<>> THEN ""
    ELSE IF Len(units) = 1 THEN units[1]
    ELSE units[1] \o sep \o join(sep, Tail(units))

\* sum(len(s) + spacing for s in units)
RECURSIVE SumLengths(_, _)
SumLengths(units, spacing) ==
    IF units = <<>> THEN 0
    ELSE Len(Head(units)) + spacing + SumLengths(Tail(units), spacing)

\* the overlap loop over reversed(current_chunk): unit k is put in front of
\* the buffer before the length is tested, and the loop ends at the test or
\* with the first unit
\* an overlap window that tests its length before it takes a unit
RECURSIVE OverlapTestsFirst(_, _, _, _, _)
OverlapTestsFirst(current_chunk, k, overlap_length, spacing, overlap) ==
    IF overlap_length >= overlap \/ k = 0
    THEN SubSeq(current_chunk, k + 1, Len(current_chunk))
    ELSE OverlapTestsFirst(current_chunk, k - 1,
                           overlap_length + Len(current_chunk[k]) + spacing,
                           spacing, overlap)

\* the for loop over reversed(current_chunk) at the close of a chunk, from
\* unit k down: a unit is taken, then the accumulated length is tested
RECURSIVE OverlapBuffer(_, _, _, _, _)
OverlapBuffer(current_chunk, k, overlap_length, spacing, overlap) ==
    LET longer == overlap_length + Len(current_chunk[k]) + spacing
    IN  IF longer >= overlap \/ k = 1
        THEN SubSeq(current_chunk, k, Len(current_chunk))
        ELSE OverlapBuffer(current_chunk, k - 1, longer, spacing, overlap)

\* a loop that closes chunks as the code does and forgets the units left in
\* current_chunk at the end
RECURSIVE ClosedChunksOnly(_, _, _, _, _, _, _, _)
ClosedChunksOnly(units, i, chunks, current_chunk, current_length, spacing, size, overlap) ==
    IF i > Len(units) THEN chunks
    ELSE LET sentence == units[i]
             sentence_length == Len(sentence) + spacing
             closes == current_length + sentence_length > size
                           /\ current_chunk # <<>>
             overlap_buffer ==
                 OverlapBuffer(current_chunk, Len(current_chunk), 0, spacing, overlap)
         IN  IF closes
             THEN ClosedChunksOnly(units, i + 1, Append(chunks, current_chunk),
                                   Append(overlap_buffer, sentence),
                                   SumLengths(overlap_buffer, spacing) + sentence_length,
                                   spacing, size, overlap)
             ELSE ClosedChunksOnly(units, i + 1, chunks,
                                   Append(current_chunk, sentence),
                                   current_length + sentence_length,
                                   spacing, size, overlap)

\* a loop that closes the running chunk as soon as the next unit would bring
\* it to chunk_size
RECURSIVE UnitLoopClosesAtSize(_, _, _, _, _, _, _, _)
UnitLoopClosesAtSize(units, i, chunks, current_chunk, current_length, spacing, size, overlap) ==
    IF i > Len(units)
    THEN IF current_chunk # <<>> THEN Append(chunks, current_chunk) ELSE chunks
    ELSE LET sentence == units[i]
             sentence_length == Len(sentence) + spacing
             closes == current_length + sentence_length >= size
                           /\ current_chunk # <<>>
             overlap_buffer ==
                 OverlapBuffer(current_chunk, Len(current_chunk), 0, spacing, overlap)
         IN  IF closes
             THEN UnitLoopClosesAtSize(units, i + 1, Append(chunks, current_chunk),
                                       Append(overlap_buffer, sentence),
                                       SumLengths(overlap_buffer, spacing) + sentence_length,
                                       spacing, size, overlap)
             ELSE UnitLoopClosesAtSize(units, i + 1, chunks,
                                       Append(current_chunk, sentence),
                                       current_length + sentence_length,
                                       spacing, size, overlap)

\* the for loop of chunk_by_sentences and of chunk_by_paragraphs from unit i
\* on; a chunk is kept as the list of its units, joined on return
RECURSIVE UnitLoop(_, _, _, _, _, _, _, _)
UnitLoop(units, i, chunks, current_chunk, current_length, spacing, size, overlap) ==
    IF i > Len(units)
    THEN IF current_chunk # <<>> THEN Append(chunks, current_chunk) ELSE chunks
    ELSE LET sentence == units[i]
             sentence_length == Len(sentence) + spacing
             closes == current_length + sentence_length > size
                           /\ current_chunk # <<>>
             overlap_buffer ==
                 OverlapBuffer(current_chunk, Len(current_chunk), 0, spacing, overlap)
         IN  IF closes
             THEN UnitLoop(units, i + 1, Append(chunks, current_chunk),
                           Append(overlap_buffer, sentence),
                           SumLengths(overlap_buffer, spacing) + sentence_length,
                           spacing, size, overlap)
             ELSE UnitLoop(units, i + 1, chunks,
                           Append(current_chunk, sentence),
                           current_length + sentence_length,
                           spacing, size, overlap)

\* the chunks of chunk_by_sentences, each as the list of its sentences
SentenceChunkUnits(text, size, overlap) ==
    UnitLoop(Sentences(text), 1, <<>>, <<>>, 0, 1, size, overlap)

\* the chunks of chunk_by_paragraphs, each as the list of its paragraphs
ParagraphChunkUnits(text, size, overlap) ==
    UnitLoop(Paragraphs(text), 1, <<>>, <<>>, 0, 2, size, overlap)

JoinAll(sep, lists) == [k \in 1..Len(lists) |-> join(sep, lists[k])]

chunk_by_sentences(text, size, overlap) ==
    Chunked(JoinAll(" ", SentenceChunkUnits(text, size, overlap)))

chunk_by_paragraphs(text, size, overlap) ==
    Chunked(JoinAll("\n\n", ParagraphChunkUnits(text, size, overlap)))

\* the method dispatch of chunk_with_metadata and get_chunks_by_token_limit
ChunksBy(method, text, size, overlap) ==
    IF method = "sentences" THEN chunk_by_sentences(text, size, overlap)
    ELSE IF method = "paragraphs" THEN chunk_by_paragraphs(text, size, overlap)
    ELSE chunk_by_characters(text, size, overlap)

\* the for loop of chunk_with_metadata from chunk idx + 1 on
\* a loop that looks for every chunk from the start of the text
RECURSIVE MetadataFromStart(_, _, _, _, _, _)
MetadataFromStart(text, method, chunks, idx, char_position, chunk_data) ==
    IF idx >= Len(chunks) THEN chunk_data
    ELSE LET chunk == chunks[idx + 1]
             found == StrFind(text, chunk, 0)
             record == [chunk_id |-> idx,
                        text |-> chunk,
                        length |-> Len(chunk),
                        start_position |-> found,
                        end_position |-> found + Len(chunk),
                        method |-> method]
         IN  MetadataFromStart(text, method, chunks, idx + 1, found + Len(chunk),
                               Append(chunk_data, record))

RECURSIVE MetadataLoop(_, _, _, _, _, _)
MetadataLoop(text, method, chunks, idx, char_position, chunk_data) ==
    IF idx >= Len(chunks) THEN chunk_data
    ELSE LET chunk == chunks[idx + 1]
             found == StrFind(text, chunk, char_position)
             record == [chunk_id |-> idx,
                        text |-> chunk,
                        length |-> Len(chunk),
                        start_position |-> found,
                        end_position |-> found + Len(chunk),
                        method |-> method]
         IN  MetadataLoop(text, method, chunks, idx + 1, found + Len(chunk),
                          Append(chunk_data, record))

chunk_with_metadata(text, method, size, overlap) ==
    LET chunked == ChunksBy(method, text, size, overlap)
    IN  IF chunked.ends
        THEN [ends |-> TRUE, meta |-> MetadataLoop(text, method, chunked.chunks, 0, 0, <<>>)]
        ELSE [ends |-> FALSE, meta |-> <<>>]

\* int(len(text) * tokens_per_char) with the default 0.25 tokens per character
estimate_tokens(text) == Len(text) \div 4

\* int(max_tokens / 0.25)
EstimatedCharLimit(max_tokens) == max_tokens * 4

(***************************************************************************)
(* One TextChunker in use: it is constructed once and its methods are then *)
(* called, one call after the other, on one text.                          *)
(***************************************************************************)
\* the largest chunk_size and chunk_overlap a chunker is constructed with
MaxChunkSize == 6

\* the largest max_tokens get_chunks_by_token_limit is called with
MaxTokens == 2

\* the largest number of pieces a text is made of
MaxPieces == 3

\* a word, a sentence with the space after it, a sentence that ends its
\* paragraph, and a space
Pieces == {"a", "b. ", "c!\n\n", " "}

RECURSIVE TextsOf(_)
TextsOf(n) ==
    IF n = 0 THEN {""}
    ELSE LET shorter == TextsOf(n - 1)
         IN  shorter \cup {t \o p : t \in shorter, p \in Pieces}

Texts == TextsOf(MaxPieces)

Methods == {"characters", "sentences", "paragraphs"}

\* the chunker's runs use no extraction client
NoExtraction ==
    /\ model_type = "gemini"
    /\ max_retries = 0
    /\ initial_wait_time = 1
    /\ article_text = ""
    /\ user_prompt_template = ""
    /\ pc = "none"
    /\ user_prompt = ""
    /\ attempt = 0
    /\ last_exception = NoExc
    /\ response = NoneStr
    /\ result = <<>>
    /\ escaped = NoExc
    /\ log = <<>>

ChunkerInit ==
    /\ NoExtraction
    /\ NoParser
    /\ NoThreads
    /\ arg_chunk_size \in 1..MaxChunkSize
    /\ arg_chunk_overlap \in 0..MaxChunkSize
    /\ chunk_size = 0
    /\ chunk_overlap = 0
    /\ doc_text \in Texts
    /\ chunker_pc = "new"
    /\ frame = NoFrame
    /\ call = NoCall

\* a call that returned
ReturnedCall(op, method, chunks, meta) ==
    [op |-> op, method |-> method, max_tokens |-> 0, outcome |-> "returned",
     chunks |-> chunks, meta |-> meta]

\* a test that lets chunk_overlap = chunk_size through
OverlapLarger(size, overlap) == overlap > size

\* the constructor's test
OverlapTooLarge(size, overlap) == overlap >= size

\* TextChunker(arg_chunk_size, arg_chunk_overlap)
__init__ ==
    /\ chunker_pc = "new"
    /\ IF OverlapTooLarge(arg_chunk_size, arg_chunk_overlap)
       THEN /\ chunker_pc' = "failed"
            /\ call' = [NoCall EXCEPT !.op = "__init__", !.outcome = "raised"]
            /\ UNCHANGED <<chunk_size, chunk_overlap>>
       ELSE /\ chunker_pc' = "ready"
            /\ chunk_size' = arg_chunk_size
            /\ chunk_overlap' = arg_chunk_overlap
            /\ call' = [NoCall EXCEPT !.op = "__init__", !.outcome = "returned"]
    /\ UNCHANGED <<arg_chunk_size, arg_chunk_overlap, doc_text, frame>>
    /\ UNCHANGED <<extraction_vars, parser_vars, thread_vars>>

\* a call of one of the three chunking methods: it returns its list, or its
\* loop never ends and the caller waits for ever
PlainCall(op, chunked) ==
    /\ IF chunked.ends
       THEN /\ call' = ReturnedCall(op, "", chunked.chunks, <<>>)
            /\ UNCHANGED chunker_pc
       ELSE /\ call' = [NoCall EXCEPT !.op = op, !.outcome = "running"]
            /\ chunker_pc' = "hangs"
    /\ UNCHANGED <<arg_chunk_size, arg_chunk_overlap, chunk_size, chunk_overlap,
                   doc_text, frame>>
    /\ UNCHANGED <<extraction_vars, parser_vars, thread_vars>>

CallByCharacters ==
    /\ chunker_pc = "ready"
    /\ PlainCall("chunk_by_characters",
                 chunk_by_characters(doc_text, chunk_size, chunk_overlap))

CallBySentences ==
    /\ chunker_pc = "ready"
    /\ PlainCall("chunk_by_sentences",
                 chunk_by_sentences(doc_text, chunk_size, chunk_overlap))

CallByParagraphs ==
    /\ chunker_pc = "ready"
    /\ PlainCall("chunk_by_paragraphs",
                 chunk_by_paragraphs(doc_text, chunk_size, chunk_overlap))

CallWithMetadata ==
    /\ chunker_pc = "ready"
    /\ \E method \in Methods :
          LET r == chunk_with_metadata(doc_text, method, chunk_size, chunk_overlap)
          IN  IF r.ends
              THEN /\ call' = ReturnedCall("chunk_with_metadata", method, <<>>, r.meta)
                   /\ UNCHANGED chunker_pc
              ELSE /\ call' = [NoCall EXCEPT !.op = "chunk_with_metadata",
                                             !.method = method,
                                             !.outcome = "running"]
                   /\ chunker_pc' = "hangs"
    /\ UNCHANGED <<arg_chunk_size, arg_chunk_overlap, chunk_size, chunk_overlap,
                   doc_text, frame>>
    /\ UNCHANGED <<extraction_vars, parser_vars, thread_vars>>

\* get_chunks_by_token_limit up to its try: the size is derived and put in
\* the place of self.chunk_size
TokenLimitEnter ==
    /\ chunker_pc = "ready"
    /\ \E max_tokens \in 1..MaxTokens, method \in Methods :
          /\ frame' = [estimated_char_limit |-> EstimatedCharLimit(max_tokens),
                       original_size |-> chunk_size,
                       ends |-> TRUE, chunks |-> <<>>]
          /\ chunk_size' = EstimatedCharLimit(max_tokens)
          /\ call' = [NoCall EXCEPT !.op = "get_chunks_by_token_limit",
                                    !.method = method,
                                    !.max_tokens = max_tokens,
                                    !.outcome = "running"]
    /\ chunker_pc' = "try"
    /\ UNCHANGED <<arg_chunk_size, arg_chunk_overlap, chunk_overlap, doc_text>>
    /\ UNCHANGED <<extraction_vars, parser_vars, thread_vars>>

\* the try block: the chosen method runs with the derived size
TokenLimitTry ==
    /\ chunker_pc = "try"
    /\ LET chunked == ChunksBy(call.method, doc_text, chunk_size, chunk_overlap)
       IN  /\ frame' = [frame EXCEPT !.ends = chunked.ends,
                                     !.chunks = chunked.chunks]
           /\ chunker_pc' = IF chunked.ends THEN "finally" ELSE "loops"
    /\ UNCHANGED <<arg_chunk_size, arg_chunk_overlap, chunk_size, chunk_overlap,
                   doc_text, call>>
    /\ UNCHANGED <<extraction_vars, parser_vars, thread_vars>>

\* a loop that never ends appends a chunk at every pass: it goes on for ever,
\* or until memory is used up and MemoryError leaves the try
TokenLimitMemoryError ==
    /\ chunker_pc = "loops"
    /\ chunker_pc' = "finally"
    /\ UNCHANGED <<arg_chunk_size, arg_chunk_overlap, chunk_size, chunk_overlap,
                   doc_text, frame, call>>
    /\ UNCHANGED <<extraction_vars, parser_vars, thread_vars>>

\* a return that leaves the derived size in self.chunk_size
TokenLimitNoRestore ==
    /\ chunker_pc = "finally"
    /\ call' = [call EXCEPT !.outcome = IF frame.ends THEN "returned" ELSE "raised",
                            !.chunks = frame.chunks]
    /\ frame' = NoFrame
    /\ chunker_pc' = "ready"
    /\ UNCHANGED <<arg_chunk_size, arg_chunk_overlap, chunk_size, chunk_overlap,
                   doc_text>>
    /\ UNCHANGED <<extraction_vars, parser_vars, thread_vars>>

\* the finally block and the return
TokenLimitFinally ==
    /\ chunker_pc = "finally"
    /\ chunk_size' = frame.original_size
    /\ call' = [call EXCEPT !.outcome = IF frame.ends THEN "returned" ELSE "raised",
                            !.chunks = frame.chunks]
    /\ frame' = NoFrame
    /\ chunker_pc' = "ready"
    /\ UNCHANGED <<arg_chunk_size, arg_chunk_overlap, chunk_overlap, doc_text>>
    /\ UNCHANGED <<extraction_vars, parser_vars, thread_vars>>

get_chunks_by_token_limit ==
    TokenLimitEnter \/ TokenLimitTry \/ TokenLimitMemoryError \/ TokenLimitFinally

ChunkerNext ==
    \/ __init__
    \/ CallByCharacters
    \/ CallBySentences
    \/ CallByParagraphs
    \/ CallWithMetadata
    \/ get_chunks_by_token_limit

ChunkerSpec == ChunkerInit /\ [][ChunkerNext]_vars

(***************************************************************************)
(* format_as_json (utils/output_formatter.py): json.dumps of a decoded     *)
(* value.  A value is kept as its compact text (repr), which is scanned    *)
(* character by character: depth is the nesting depth and in_string tells  *)
(* whether the scan is inside a string.                                    *)

(***************************************************************************)
(* One TextChunker shared by two threads, each of which calls              *)
(* get_chunks_by_token_limit once.  The statements of the method are the   *)
(* steps; a thread may be suspended between any two of them.  The chunking *)
(* call inside the try is one step, which reads self.chunk_size as it is   *)
(* when the step is taken.                                                 *)
(***************************************************************************)
Threads == {1, 2}

ThreadTexts == {"aaaaaaaaaa", "b. c!\n\nb. a"}

\* the locals of a call that has not started
NewThreadFrame(max_tokens, method) ==
    [max_tokens |-> max_tokens, method |-> method, estimated_char_limit |-> 0,
     original_size |-> 0, used_size |-> 0, ends |-> TRUE, chunks |-> <<>>]

\* a constructed chunker and two calls with different max_tokens
ThreadInit ==
    /\ NoExtraction
    /\ NoParser
    /\ arg_chunk_size \in 1..MaxChunkSize
    /\ arg_chunk_overlap \in 0..MaxChunkSize
    /\ ~OverlapTooLarge(arg_chunk_size, arg_chunk_overlap)
    /\ chunk_size = arg_chunk_size
    /\ chunk_overlap = arg_chunk_overlap
    /\ doc_text \in ThreadTexts
    /\ chunker_pc = "ready"
    /\ frame = NoFrame
    /\ call = NoCall
    /\ thread_pc = [t \in Threads |-> "start"]
    /\ \E m1 \in 1..MaxTokens, m2 \in 1..MaxTokens, method1 \in Methods,
          method2 \in Methods :
          /\ m1 # m2
          /\ thread_frame = [t \in Threads |->
                                IF t = 1 THEN NewThreadFrame(m1, method1)
                                ELSE NewThreadFrame(m2, method2)]

\* estimated_char_limit = int(max_tokens / 0.25); original_size = self.chunk_size
ThreadSave ==
    /\ \E t \in Threads :
          /\ thread_pc[t] = "start"
          /\ thread_frame' =
                 [thread_frame EXCEPT
                    ![t].estimated_char_limit =
                        EstimatedCharLimit(thread_frame[t].max_tokens),
                    ![t].original_size = chunk_size]
          /\ thread_pc' = [thread_pc EXCEPT ![t] = "saved"]
    /\ UNCHANGED chunker_vars
    /\ UNCHANGED <<extraction_vars, parser_vars>>

\* self.chunk_size = estimated_char_limit
ThreadSet ==
    /\ \E t \in Threads :
          /\ thread_pc[t] = "saved"
          /\ chunk_size' = thread_frame[t].estimated_char_limit
          /\ thread_pc' = [thread_pc EXCEPT ![t] = "try"]
    /\ UNCHANGED <<arg_chunk_size, arg_chunk_overlap, chunk_overlap, doc_text,
                   chunker_pc, frame, call, thread_frame>>
    /\ UNCHANGED <<extraction_vars, parser_vars>>

\* the try block: the chosen method runs with self.chunk_size
ThreadChunk ==
    /\ \E t \in Threads :
          /\ thread_pc[t] = "try"
          /\ LET chunked == ChunksBy(thread_frame[t].method, doc_text,
                                     chunk_size, chunk_overlap)
             IN  /\ thread_frame' =
                        [thread_frame EXCEPT ![t].used_size = chunk_size,
                                             ![t].ends = chunked.ends,
                                             ![t].chunks = chunked.chunks]
                 /\ thread_pc' = [thread_pc EXCEPT
                                    ![t] = IF chunked.ends THEN "finally" ELSE "loops"]
    /\ UNCHANGED chunker_vars
    /\ UNCHANGED <<extraction_vars, parser_vars>>

\* a loop that never ends runs until MemoryError leaves the try
ThreadMemoryError ==
    /\ \E t \in Threads :
          /\ thread_pc[t] = "loops"
          /\ thread_pc' = [thread_pc EXCEPT ![t] = "finally"]
    /\ UNCHANGED chunker_vars
    /\ UNCHANGED thread_frame
    /\ UNCHANGED <<extraction_vars, parser_vars>>

\* the finally block, self.chunk_size = original_size, and the return
ThreadRestore ==
    /\ \E t \in Threads :
          /\ thread_pc[t] = "finally"
          /\ chunk_size' = thread_frame[t].original_size
          /\ thread_pc' = [thread_pc EXCEPT ![t] = "done"]
    /\ UNCHANGED <<arg_chunk_size, arg_chunk_overlap, chunk_overlap, doc_text,
                   chunker_pc, frame, call, thread_frame>>
    /\ UNCHANGED <<extraction_vars, parser_vars>>

ThreadNext ==
    ThreadSave \/ ThreadSet \/ ThreadChunk \/ ThreadMemoryError \/ ThreadRestore

ThreadSpec == ThreadInit /\ [][ThreadNext]_vars

(***************************************************************************)
\* the indentation of json.dumps(indent=2) at one depth
RECURSIVE Indent(_)
Indent(depth) == IF depth <= 0 THEN "" ELSE "  " \o Indent(depth - 1)

RECURSIVE Dump(_, _, _, _, _)
Dump(repr, i, depth, in_string, pretty) ==
    IF i > Len(repr) THEN ""
    ELSE
    LET c == CharAt(repr, i)
        next == IF i < Len(repr) THEN CharAt(repr, i + 1) ELSE ""
    IN  IF c = "\"" THEN c \o Dump(repr, i + 1, depth, ~in_string, pretty)
        ELSE IF in_string THEN c \o Dump(repr, i + 1, depth, in_string, pretty)
        ELSE IF c = ":" THEN ": " \o Dump(repr, i + 1, depth, in_string, pretty)
        ELSE IF ~pretty
        THEN (IF c = "," THEN ", " ELSE c)
                 \o Dump(repr, i + 1, depth, in_string, pretty)
        ELSE IF (c = "{" /\ next = "}") \/ (c = "[" /\ next = "]")
        THEN c \o next \o Dump(repr, i + 2, depth, in_string, pretty)
        ELSE IF c \in {"{", "["}
        THEN c \o "\n" \o Indent(depth + 1)
                 \o Dump(repr, i + 1, depth + 1, in_string, pretty)
        ELSE IF c \in {"}", "]"}
        THEN "\n" \o Indent(depth - 1) \o c
                 \o Dump(repr, i + 1, depth - 1, in_string, pretty)
        ELSE IF c = ","
        THEN ",\n" \o Indent(depth) \o Dump(repr, i + 1, depth, in_string, pretty)
        ELSE c \o Dump(repr, i + 1, depth, in_string, pretty)

format_as_json(data, pretty) == Dump(data.repr, 1, 0, FALSE, pretty)

(***************************************************************************)
(* The response parser on its own: one reply text is parsed and, when it   *)
(* parsed, the value is formatted.                                         *)
(***************************************************************************)
\* JSON objects as a provider writes them
ObjectTexts ==
    { "{\"title\": \"X\"}",
      "{}",
      "{\"a\": 1, \"b\": [true, null]}",
      "{ \"a\" : {\"b\": \"x y\", \"c\": []} }",
      "{\"k\": \"~~~\"}",
      "{\"t\": \"json\", \"u\": \"{\"}",
      "{\"n\": -12,\n \"m\": [[], {}, \"s\"]}" }

\* texts that are no JSON object
OtherTexts ==
    { "not json", "", "[1]", "null", "7", "x {oops} y", "{oops}",
      "{\"a\": 1,}", "Here: {\"a\": 1} done", "} {", "{" }

RawTexts == ObjectTexts \cup OtherTexts

\* a text as it is, in a json fence or in a bare fence, with or without a
\* newline inside the fence
Fenced(raw) ==
    {raw}
        \cup {open \o inner \o raw \o inner \o FENCE :
                 open \in {FENCE_JSON, FENCE}, inner \in {"", "\n"}}

\* the same with or without whitespace around it
Replies ==
    UNION { {[raw |-> raw, text |-> lead \o body \o trail] :
                body \in Fenced(raw), lead \in {"", " \n"}, trail \in {"", "\n "}} :
            raw \in RawTexts }

ParserInit ==
    /\ NoExtraction
    /\ NoChunker
    /\ NoThreads
    /\ reply \in Replies
    /\ parse_result = ParseRaises(Exc("", ""))
    /\ formatted = ""
    /\ parser_pc = "start"

\* self._parse_json_response(response)
ParseResponse ==
    /\ parser_pc = "start"
    /\ parse_result' = _parse_json_response(SomeStr(reply.text))
    /\ parser_pc' = "parsed"
    /\ UNCHANGED <<reply, formatted>>
    /\ UNCHANGED <<extraction_vars, chunker_vars, thread_vars>>

\* format_as_json(data, pretty) on the value the parser returned
FormatParsed ==
    /\ parser_pc = "parsed"
    /\ parse_result.ok
    /\ \E pretty \in BOOLEAN :
          formatted' = format_as_json(parse_result.val, pretty)
    /\ parser_pc' = "formatted"
    /\ UNCHANGED <<reply, parse_result>>
    /\ UNCHANGED <<extraction_vars, chunker_vars, thread_vars>>

ParserNext == ParseResponse \/ FormatParsed

ParserSpec == ParserInit /\ [][ParserNext]_vars


(***************************************************************************)
(* What the properties below speak of.                                     *)
(***************************************************************************)
IsCall(e) == e.op = "call"
IsSleep(e) == e.op = "sleep"

Calls == SelectSeq(log, IsCall)
Sleeps == SelectSeq(log, IsSleep)
NumCalls == Len(Calls)
NumSleeps == Len(Sleeps)

Done == pc = "done"
Returned == Done /\ Len(result) = 1
Envelope == result[1]

EnvelopeKeys == {"success", "data", "raw_response", "error", "retry_count"}

\* The specification's error classes: an error is retryable iff its lower-cased
\* message holds one of these.
RetryableKeywords ==
    {"timeout", "connection", "rate", "429", "500", "502", "503", "temporarily"}

IsRetryableError(msg) ==
    \E lowered \in {lower(msg)} :
        \E kw \in RetryableKeywords : StrContains(lowered, kw)

\* the first k provider calls all failed with a retryable error
FirstFailRetryable(k) ==
    \A j \in 1..k : Calls[j].raised /\ IsRetryableError(Calls[j].msg)

\* a provider call returned a text that parses
ParseableReply(e) == ~e.raised /\ _parse_json_response(e.text).ok

\* the k sleeps between k + 1 calls, the j-th of length initial_wait_time * 2^j
BackoffBetweenCalls(k) ==
    /\ Len(log) = 2 * k + 1
    /\ \A j \in 0..(k - 1) :
          /\ IsCall(log[2 * j + 1])
          /\ log[2 * j + 2] = SleepEntry(initial_wait_time * (2 ^ j))
    /\ IsCall(log[2 * k + 1])

RECURSIVE SumWaits(_)
SumWaits(entries) ==
    IF entries = <<>> THEN 0 ELSE Head(entries).wait + SumWaits(Tail(entries))

TotalWait == SumWaits(Sleeps)

(***************************************************************************)
(* C1.  extract_structure never raises: whatever the prompt rendering,     *)
(* the provider calls and the parse do, no exception leaves it, and a     *)
(* call that is over has returned an envelope with exactly the keys        *)
(* success, data, raw_response, error and retry_count.                     *)
(***************************************************************************)
C1_NeverRaises ==
    /\ ~escaped.some
    /\ Done => Len(result) = 1 /\ DOMAIN Envelope = EnvelopeKeys

\* retries ran out on a provider that kept failing, and an envelope came back
C1_Witness ==
    /\ Returned /\ ~Envelope.success
    /\ max_retries >= 2 /\ NumCalls = max_retries
    /\ Calls[NumCalls].raised

(***************************************************************************)
(* C2.  In every returned envelope success holds iff error is None and     *)
(* data is not None; on success raw_response is the text the provider      *)
(* returned, unchanged; on failure data and raw_response are None.  A      *)
(* text that parses to a falsy value (null, [], 0, ...) is a success.      *)
(***************************************************************************)
C2_EnvelopeShape ==
    Returned =>
        /\ Envelope.success <=> (~Envelope.error.some /\ Envelope.data.some)
        /\ Envelope.success =>
              /\ NumCalls >= 1
              /\ ~Calls[NumCalls].raised
              /\ Calls[NumCalls].text.some
              /\ Envelope.raw_response = Calls[NumCalls].text
        /\ ~Envelope.success => ~Envelope.data.some /\ ~Envelope.raw_response.some
        /\ (/\ NumCalls >= 1
            /\ ~Calls[NumCalls].raised
            /\ Calls[NumCalls].text.some
            /\ loads(strip(Calls[NumCalls].text.val)).ok)
              => Envelope.success

\* the provider answered null inside a json fence
C2_Witness ==
    /\ Returned /\ Envelope.success
    /\ Envelope.raw_response = SomeStr(FENCE_JSON \o "\nnull\n" \o FENCE)
    /\ Envelope.data = SomeVal(EmptyDict)

(***************************************************************************)
(* C3.  When the first provider call fails with a permanent error (one     *)
(* that holds none of the retryable keywords), that call is the only       *)
(* provider call, no sleep happens, and the envelope has success = false   *)
(* and an error containing the original message: for every                 *)
(* max_retries >= 1 and either provider.                                   *)
(***************************************************************************)
C3_PermanentFailsFast ==
    (/\ max_retries >= 1
     /\ NumCalls >= 1
     /\ Calls[1].raised
     /\ ~IsRetryableError(Calls[1].msg))
        => /\ log = <<Calls[1]>>
           /\ Returned
           /\ ~Envelope.success
           /\ Envelope.error.some
           /\ StrContains(Envelope.error.val, Calls[1].msg)

\* "Invalid API key" on the chat-completion provider with three attempts allowed
C3_Witness ==
    /\ Returned
    /\ model_type = "gpt4o-mini" /\ max_retries = 3
    /\ NumCalls = 1 /\ Calls[1].raised /\ Calls[1].msg = "Invalid API key"

(***************************************************************************)
(* C4, as claimed.  If the first k provider calls (0 <= k < max_retries)   *)
(* fail with retryable errors, the routine goes on to call k + 1; and if   *)
(* that call returns parseable JSON, the envelope has success = true, the  *)
(* provider was called k + 1 times and k sleeps happened, the j-th of      *)
(* length initial_wait_time * 2^j, each between two consecutive calls.     *)
(***************************************************************************)
C4_RetryThenSuccess ==
    /\ \A k \in 1..NumCalls :
          (k = NumCalls /\ k < max_retries /\ FirstFailRetryable(k))
              => pc \in {"sleep", "attempt"}
    /\ \A k \in 0..(NumCalls - 1) :
          (/\ Done
           /\ k + 1 = NumCalls
           /\ k < max_retries
           /\ FirstFailRetryable(k)
           /\ ParseableReply(Calls[k + 1]))
              => /\ Returned /\ Envelope.success
                 /\ NumSleeps = k
                 /\ BackoffBetweenCalls(k)

(***************************************************************************)
(* C5, as claimed.  A run makes at most max_retries provider calls; when   *)
(* every attempt failed with a retryable error it made exactly             *)
(* max_retries calls and max_retries - 1 sleeps, the last failed call      *)
(* being the last thing it did; and the run ends in an envelope.           *)
(***************************************************************************)
C5_BoundedAttempts ==
    /\ NumCalls <= max_retries
    /\ Done => Len(result) = 1
    /\ (Done /\ NumCalls >= 1 /\ FirstFailRetryable(NumCalls))
          => /\ NumCalls = max_retries
             /\ NumSleeps = max_retries - 1
             /\ IsCall(log[Len(log)])

(***************************************************************************)
(* C6, as claimed.  When all max_retries attempts fail with a retryable    *)
(* error, a wait of initial_wait_time * 2^n follows each failed attempt    *)
(* n = 0 .. max_retries - 1, so the total wait on exhaustion is            *)
(* initial_wait_time * (2^max_retries - 1).                                *)
(***************************************************************************)
C6_WaitAfterEveryAttempt ==
    (Done /\ max_retries >= 1 /\ NumCalls = max_retries /\ FirstFailRetryable(NumCalls))
        => /\ NumSleeps = max_retries
           /\ \A n \in 0..(max_retries - 1) :
                 Sleeps[n + 1].wait = initial_wait_time * (2 ^ n)
           /\ TotalWait = initial_wait_time * (2 ^ max_retries - 1)

(***************************************************************************)
(* C7, as claimed.  In both retry routines a failed provider call that is  *)
(* not the last allowed attempt is retried (a sleep follows) if and only   *)
(* if its lower-cased message holds one of timeout, connection, rate, 429, *)
(* 500, 502, 503, temporarily.                                             *)
(***************************************************************************)
C7_SameClassification ==
    (/\ Len(log) >= 1
     /\ IsCall(log[Len(log)])
     /\ log[Len(log)].raised
     /\ attempt < max_retries - 1)
        => (pc = "sleep" <=> IsRetryableError(log[Len(log)].msg))

(***************************************************************************)
(* C8, as claimed.  The envelope's retry_count is the number of retries    *)
(* the call consumed (the provider calls made minus one), and the          *)
(* configured maximum on exhaustion: 0 only on a first-try success, the    *)
(* maximum only on exhaustion.                                             *)
(***************************************************************************)
Exhausted == NumCalls = max_retries /\ Calls[NumCalls].raised

C8_RetryCountIsRetriesUsed ==
    (Returned /\ NumCalls >= 1) =>
        /\ Envelope.retry_count = IF Exhausted THEN max_retries ELSE NumCalls - 1
        /\ Envelope.retry_count = 0 => Envelope.success /\ NumCalls = 1
        /\ Envelope.retry_count = max_retries => Exhausted

(***************************************************************************)
(* C9.  retry_count is 0 in every success envelope, however many retries   *)
(* came before, and max_retries in every failure envelope, whatever the    *)
(* failure was.                                                            *)
(***************************************************************************)
C9_RetryCountIsCoarse ==
    Returned =>
        /\ Envelope.success => Envelope.retry_count = 0
        /\ ~Envelope.success => Envelope.retry_count = max_retries

\* a permanent error on the first of three allowed attempts reports 3
C9_Witness ==
    /\ Returned /\ ~Envelope.success
    /\ max_retries = 3 /\ NumCalls = 1
    /\ Envelope.retry_count = 3

(***************************************************************************)
(* C10.  A response that does not parse is never retried: a provider call  *)
(* that returned is the last entry of the log (no call and no sleep        *)
(* follows it), and when its text does not parse the envelope has          *)
(* success = false and an error message.                                   *)
(***************************************************************************)
C10_ParseFailureIsFinal ==
    /\ \A i \in 1..Len(log) : (IsCall(log[i]) /\ ~log[i].raised) => i = Len(log)
    /\ (/\ Done
        /\ NumCalls >= 1
        /\ ~Calls[NumCalls].raised
        /\ ~_parse_json_response(Calls[NumCalls].text).ok)
          => /\ Returned
             /\ ~Envelope.success
             /\ Envelope.error.some
             /\ Envelope.error.val # ""

\* an unparseable reply to the second of three allowed attempts
C10_Witness ==
    /\ Returned /\ ~Envelope.success
    /\ max_retries = 3 /\ NumCalls = 2
    /\ Calls[2] = CallEntry(Returns(SomeStr("not json")))
    /\ Envelope.error = SomeStr("Failed to parse JSON response: Expecting value")


(***************************************************************************)
(* TextChunker: what the properties below speak of.                        *)
(***************************************************************************)
\* the last call was op and it has returned
HasReturned(op) == call.op = op /\ call.outcome = "returned"

Max(a, b) == IF a >= b THEN a ELSE b

\* the first n and the last n characters of s, all of s when it has fewer
FirstChars(s, n) == SubSeq(s, 1, Min(n, Len(s)))
LastChars(s, n) == SubSeq(s, Max(1, Len(s) - n + 1), Len(s))

\* the step of the character window and the 0-based start of its chunk k
Step == chunk_size - chunk_overlap
WindowStart(k) == (k - 1) * Step
WindowEnd(k) == Min(WindowStart(k) + chunk_size, Len(doc_text))

\* the number of k >= 0 with k * step < len(text)
WindowCount == Cardinality({k \in 0..Len(doc_text) : k * Step < Len(doc_text)})

\* C11: the constructor raises for every pair with chunk_overlap >=
\* chunk_size and otherwise succeeds and stores both arguments unchanged
C11_ConstructorCheck ==
    chunker_pc # "new" =>
        IF arg_chunk_overlap >= arg_chunk_size
        THEN chunker_pc = "failed" /\ call.op = "__init__" /\ call.outcome = "raised"
        ELSE /\ chunker_pc # "failed"
             /\ chunk_overlap = arg_chunk_overlap
             /\ call.op = "__init__" =>
                    call.outcome = "returned" /\ chunk_size = arg_chunk_size

\* a constructor call with chunk_overlap = chunk_size has raised
C11_Witness ==
    /\ chunker_pc = "failed"
    /\ arg_chunk_overlap = arg_chunk_size
    /\ call.outcome = "raised"

\* C12: chunk_by_characters returns the naive sliding window: chunk k is
\* text[k*step : min(k*step + chunk_size, len(text))] for every k >= 0 with
\* k*step < len(text), in order, nothing for the empty text, every chunk of
\* length 1 to chunk_size
C12_SlidingWindow ==
    HasReturned("chunk_by_characters") =>
        /\ call.chunks = [k \in 1..WindowCount |->
                             SubSeq(doc_text, WindowStart(k) + 1, WindowEnd(k))]
        /\ doc_text = "" => call.chunks = <<>>
        /\ \A k \in 1..Len(call.chunks) :
               Len(call.chunks[k]) >= 1 /\ Len(call.chunks[k]) <= chunk_size

\* chunk_by_characters has returned three chunks or more, the last one a
\* trailing fragment shorter than chunk_size
C12_Witness ==
    /\ HasReturned("chunk_by_characters")
    /\ Len(call.chunks) >= 3
    /\ Len(call.chunks[Len(call.chunks)]) < chunk_size
    /\ chunk_overlap >= 1

\* C13: in the output of chunk_by_characters the last chunk_overlap
\* characters of every chunk but the last are the first chunk_overlap
\* characters of the chunk after it
C13_OverlapShared ==
    HasReturned("chunk_by_characters") =>
        \A i \in 1..(Len(call.chunks) - 1) :
            LastChars(call.chunks[i], chunk_overlap)
                = FirstChars(call.chunks[i + 1], chunk_overlap)

\* C14: in the output of chunk_by_characters every chunk but the last has
\* exactly chunk_size characters and its span of the text shares exactly
\* chunk_overlap positions with the span of the chunk after it
C14_OnlyLastChunkShort ==
    HasReturned("chunk_by_characters") =>
        \A i \in 1..(Len(call.chunks) - 1) :
            /\ Len(call.chunks[i]) = chunk_size
            /\ WindowStart(i) + Len(call.chunks[i]) - WindowStart(i + 1)
                   = chunk_overlap

\* chunk k of a returned chunk_by_characters call holds position p of the text
Holds(k, p) ==
    /\ p > WindowStart(k)
    /\ p <= WindowStart(k) + Len(call.chunks[k])
    /\ CharAt(call.chunks[k], p - WindowStart(k)) = CharAt(doc_text, p)

\* every unit is, with its neighbours in their order, one of the chunks
UnitsKept(units, sep) ==
    \A j \in 1..Len(units) :
        \E k \in 1..Len(call.chunks), a \in 1..j, b \in j..Len(units) :
            call.chunks[k] = join(sep, SubSeq(units, a, b))

\* C15: no method drops content: every position of the text lies in a chunk
\* of chunk_by_characters, and every sentence (paragraph) of the split is
\* whole, among its neighbours in their order, in a chunk of
\* chunk_by_sentences (chunk_by_paragraphs)
C15_NothingDropped ==
    /\ HasReturned("chunk_by_characters") =>
           \A p \in 1..Len(doc_text) : \E k \in 1..Len(call.chunks) : Holds(k, p)
    /\ HasReturned("chunk_by_sentences") => UnitsKept(Sentences(doc_text), " ")
    /\ HasReturned("chunk_by_paragraphs") => UnitsKept(Paragraphs(doc_text), "\n\n")

\* chunk_by_sentences has returned two chunks or more for three sentences
C15_Witness ==
    /\ HasReturned("chunk_by_sentences")
    /\ Len(Sentences(doc_text)) >= 3
    /\ Len(call.chunks) >= 2

\* C16: every record of chunk_with_metadata has 0 <= start_position <=
\* end_position <= len(text) and end_position - start_position = length =
\* len(chunk text), and text[start_position:end_position] is the chunk
C16_OffsetsLocateChunk ==
    HasReturned("chunk_with_metadata") =>
        \A i \in 1..Len(call.meta) :
            LET r == call.meta[i]
            IN  /\ 0 <= r.start_position
                /\ r.start_position <= r.end_position
                /\ r.end_position <= Len(doc_text)
                /\ r.end_position - r.start_position = r.length
                /\ r.length = Len(r.text)
                /\ SubSeq(doc_text, r.start_position + 1, r.end_position) = r.text

\* C17: the search cursor of chunk_with_metadata never goes back: the
\* position found for a chunk is not before the end offset of the chunk
\* before it, and the cursor after a chunk not before the cursor after the
\* chunk before it
C17_CursorMovesForward ==
    HasReturned("chunk_with_metadata") =>
        \A i \in 1..(Len(call.meta) - 1) :
            /\ call.meta[i + 1].start_position >= call.meta[i].end_position
            /\ call.meta[i + 1].end_position >= call.meta[i].end_position

\* C18: between calls chunk_size and chunk_overlap are the constructor's
\* arguments, also after a get_chunks_by_token_limit call that raised, so
\* that chunk_by_characters gives what it gave before
C18_ConfigRestored ==
    /\ chunker_pc = "ready" =>
           /\ chunk_size = arg_chunk_size
           /\ chunk_overlap = arg_chunk_overlap
           /\ chunk_by_characters(doc_text, chunk_size, chunk_overlap)
                  = chunk_by_characters(doc_text, arg_chunk_size, arg_chunk_overlap)
    /\ HasReturned("chunk_by_characters") =>
           call.chunks
               = chunk_by_characters(doc_text, arg_chunk_size, arg_chunk_overlap).chunks

\* a get_chunks_by_token_limit call that ran with another size has ended
\* with an exception
C18_Witness ==
    /\ chunker_pc = "ready"
    /\ call.op = "get_chunks_by_token_limit"
    /\ call.outcome = "raised"
    /\ EstimatedCharLimit(call.max_tokens) # arg_chunk_size
    /\ chunk_size = arg_chunk_size

\* C19: get_chunks_by_token_limit chunks with the size 4 * max_tokens, and
\* with chunk_overlap >= 4 * max_tokens the call neither returns chunks nor
\* runs without end
C19_LargeOverlapFails ==
    /\ chunker_pc = "try" => chunk_size = 4 * call.max_tokens
    /\ (call.op = "get_chunks_by_token_limit"
            /\ chunk_overlap >= 4 * call.max_tokens) =>
           call.outcome # "returned" /\ chunker_pc # "loops"

\* C20: every chunk get_chunks_by_token_limit returns is estimated at
\* max_tokens tokens or fewer
C20_ChunksFitLimit ==
    HasReturned("get_chunks_by_token_limit") =>
        \A k \in 1..Len(call.chunks) :
            estimate_tokens(call.chunks[k]) <= call.max_tokens

(***************************************************************************)
(* The response parser: what the properties below speak of.                *)
(***************************************************************************)
\* the reply's JSON text is a JSON object
RawIsObject == loads(reply.raw).ok /\ loads(reply.raw).val.kind = "object"

\* the reply text after the fence removal, and its two parses
Cleaned == StripFences(strip(reply.text))
DirectParse == loads(Cleaned)
SpanParses == BraceSpan(Cleaned).some /\ loads(BraceSpan(Cleaned).val).ok

\* C21: a JSON object parses to the same object whether the text is passed
\* bare, in a json fence or in a bare fence, with or without whitespace
\* around it; and the text format_as_json writes for it reads back as it
C21_FencesDoNotMatter ==
    /\ (parser_pc # "start" /\ RawIsObject) =>
           /\ parse_result = Parsed(loads(reply.raw).val)
           /\ parse_result = _parse_json_response(SomeStr(reply.raw))
    /\ (parser_pc = "formatted" /\ RawIsObject) =>
           /\ loads(formatted).ok
           /\ loads(formatted).val = parse_result.val

\* {"title": "X"} in a json fence has been parsed and formatted
C21_Witness ==
    /\ parser_pc = "formatted"
    /\ reply.text = FENCE_JSON \o "\n" \o "{\"title\": \"X\"}" \o "\n" \o FENCE
    /\ parse_result.ok
    /\ parse_result.val.repr = "{\"title\":\"X\"}"
    /\ formatted = "{\n  \"title\": \"X\"\n}"

\* C22: when the direct parse of the cleaned text and the parse of its
\* brace span both fail, also with a span that is not valid JSON, the parser
\* raises 'Failed to parse JSON response: ' with the direct parse's message
C22_MalformedCarriesFirstError ==
    (parser_pc # "start" /\ ~DirectParse.ok /\ ~SpanParses) =>
        parse_result
            = ParseRaises(Exc("ValueError",
                              "Failed to parse JSON response: " \o DirectParse.err))

\* C23: a success envelope's data is a JSON object, whatever JSON value the
\* provider's text holds
C23_DataIsObject ==
    (Returned /\ Envelope.success) =>
        Envelope.data.some /\ Envelope.data.val.kind = "object"

(***************************************************************************)
(* The sentence and paragraph methods: what the properties below speak of. *)
(***************************************************************************)
\* a call of chunk_by_sentences or of chunk_by_paragraphs has returned
UnitCallReturned ==
    HasReturned("chunk_by_sentences") \/ HasReturned("chunk_by_paragraphs")

\* for that call: the units of the text, the separator's length, and the
\* units of every chunk it returned
CallUnits ==
    IF call.op = "chunk_by_sentences" THEN Sentences(doc_text)
    ELSE Paragraphs(doc_text)
CallSeparator == IF call.op = "chunk_by_sentences" THEN " " ELSE "\n\n"
CallSpacing == Len(CallSeparator)
CallChunkUnits ==
    IF call.op = "chunk_by_sentences"
    THEN SentenceChunkUnits(doc_text, chunk_size, chunk_overlap)
    ELSE ParagraphChunkUnits(doc_text, chunk_size, chunk_overlap)

\* C24: a chunk of chunk_by_sentences or chunk_by_paragraphs is longer than
\* chunk_size only if it is a single unit that alone is longer; a chunk of
\* two units or more, overlap units included, has at most chunk_size
\* characters
C24_OversizeOnlySingleUnit ==
    UnitCallReturned =>
        \A k \in 1..Len(call.chunks) :
            /\ call.chunks[k] = join(CallSeparator, CallChunkUnits[k])
            /\ Len(call.chunks[k]) > chunk_size =>
                   /\ Len(CallChunkUnits[k]) = 1
                   /\ Len(CallChunkUnits[k][1]) > chunk_size
            /\ Len(CallChunkUnits[k]) >= 2 => Len(call.chunks[k]) <= chunk_size

\* the accumulated length of units a..b: every unit with one separator
RECURSIVE UnitsLength(_, _, _, _)
UnitsLength(units, a, b, spacing) ==
    IF a > b THEN 0
    ELSE Len(units[a]) + spacing + UnitsLength(units, a + 1, b, spacing)

\* the last unit of the chunk that starts at unit a and has just received
\* unit n: units are added while the accumulated length stays within size
ChunkLast(units, a, n, spacing, size) ==
    CHOOSE b \in n..Len(units) :
        /\ \A j \in (n + 1)..b : UnitsLength(units, a, j, spacing) <= size
        /\ b < Len(units) => UnitsLength(units, a, b + 1, spacing) > size

\* the first unit of the shortest suffix of units a..b that has at least
\* `least` units and an accumulated length of at least overlap; a when no
\* suffix is that long
CarryFirst(units, a, b, spacing, overlap, least) ==
    LET long == {f \in a..(b + 1 - least) :
                     UnitsLength(units, f, b, spacing) >= overlap}
    IN  IF long = {} THEN a
        ELSE CHOOSE f \in long : \A g \in long : g <= f

\* the chunks the rule gives from the chunk that starts at unit a and has
\* just received unit n
RECURSIVE RuleFrom(_, _, _, _, _, _, _)
RuleFrom(units, a, n, spacing, size, overlap, least) ==
    LET b == ChunkLast(units, a, n, spacing, size)
    IN  IF b = Len(units) THEN << SubSeq(units, a, b) >>
        ELSE << SubSeq(units, a, b) >>
                 \o RuleFrom(units, CarryFirst(units, a, b, spacing, overlap, least),
                             b + 1, spacing, size, overlap, least)

RuleChunks(least) ==
    IF CallUnits = <<>> THEN <<>>
    ELSE JoinAll(CallSeparator,
                 RuleFrom(CallUnits, 1, 1, CallSpacing, chunk_size, chunk_overlap, least))

\* C25 as stated: the running chunk is closed exactly when it is not empty
\* and the next unit would bring the accumulated length over chunk_size; the
\* next chunk starts with the shortest suffix of the closed chunk's units
\* whose accumulated length is at least chunk_overlap (the whole chunk when
\* it is shorter), then the new unit; units are never split
C25_CloseAndShortestSuffix ==
    UnitCallReturned => call.chunks = RuleChunks(0)

\* C25 amended: the same rule, where the suffix carried over is the shortest
\* one that is not empty
C25_CloseAndShortestNonEmptySuffix ==
    UnitCallReturned => call.chunks = RuleChunks(1)

\* a call closed a chunk of two units and carried both into the next chunk
C25_Witness ==
    /\ UnitCallReturned
    /\ chunk_overlap > 0
    /\ Len(call.chunks) >= 2
    /\ Len(CallChunkUnits[1]) = 2
    /\ Len(CallChunkUnits[2]) = 3

ChunkingOps ==
    {"chunk_by_characters", "chunk_by_sentences", "chunk_by_paragraphs",
     "chunk_with_metadata"}

\* C26: on a constructed TextChunker the three chunking methods and
\* chunk_with_metadata return for every text, the empty one included, and
\* never raise: the window of chunk_by_characters starts chunk_size -
\* chunk_overlap >= 1 further at every pass and the loop ends with the first
\* start at or after len(text)
C26_CallsTerminate ==
    /\ chunker_pc # "hangs"
    /\ call.op \in ChunkingOps => call.outcome = "returned"
    /\ chunker_pc = "ready" =>
           /\ Step >= 1
           /\ chunk_by_characters(doc_text, chunk_size, chunk_overlap).ends
           /\ \A method \in Methods :
                  chunk_with_metadata(doc_text, method, chunk_size, chunk_overlap).ends
    /\ HasReturned("chunk_by_characters") =>
           /\ Len(call.chunks) = WindowCount
           /\ \A k \in 1..Len(call.chunks) :
                  /\ WindowStart(k) < Len(doc_text)
                  /\ WindowStart(k + 1) = WindowStart(k) + Step
           /\ WindowStart(Len(call.chunks) + 1) >= Len(doc_text)

\* the smallest step: one chunk for every character of the text
C26_Witness ==
    /\ HasReturned("chunk_by_characters")
    /\ Step = 1
    /\ chunk_overlap >= 1
    /\ Len(doc_text) >= 4
    /\ Len(call.chunks) = Len(doc_text)

\* every chunk after the first starts with a suffix of at least one unit of
\* the chunk before it, and then has a unit more
BeginsWithPreviousLast(lists) ==
    \A k \in 2..Len(lists) :
        LET before == lists[k - 1]
        IN  \E m \in 1..Len(before) :
                /\ m < Len(lists[k])
                /\ SubSeq(lists[k], 1, m)
                       = SubSeq(before, Len(before) - m + 1, Len(before))

\* the chunks can be laid on the units of the text so that every chunk ends
\* at a later unit than the chunk before it, and the last at the last unit
FinalUnitsAdvance(units, lists) ==
    \E last \in [1..Len(lists) -> 1..Len(units)] :
        /\ \A k \in 1..Len(lists) :
               /\ last[k] >= Len(lists[k])
               /\ lists[k] = SubSeq(units, last[k] - Len(lists[k]) + 1, last[k])
        /\ \A k \in 2..Len(lists) : last[k] > last[k - 1]
        /\ lists # <<>> => last[Len(lists)] = Len(units)

\* C27: every chunk of chunk_by_sentences and chunk_by_paragraphs after the
\* first begins with at least the last unit of the chunk before it, for
\* every chunk_overlap >= 0, and the final unit of every chunk comes later
\* in the text than the final unit of the chunk before it
C27_CarriesLastUnitAndAdvances ==
    UnitCallReturned =>
        /\ call.chunks = JoinAll(CallSeparator, CallChunkUnits)
        /\ BeginsWithPreviousLast(CallChunkUnits)
        /\ FinalUnitsAdvance(CallUnits, CallChunkUnits)

\* three chunks with chunk_overlap = 0
C27_Witness ==
    /\ UnitCallReturned
    /\ chunk_overlap = 0
    /\ Len(call.chunks) >= 3

RECURSIVE ConcatTexts(_)
ConcatTexts(records) ==
    IF records = <<>> THEN "" ELSE Head(records).text \o ConcatTexts(Tail(records))

\* C28: with chunk_overlap = 0 and the characters method the records of
\* chunk_with_metadata tile the text: record i (from 0) has chunk_id i,
\* start_position i * chunk_size, end_position min((i + 1) * chunk_size,
\* len(text)), text[start_position:end_position] is its text, and the texts
\* in order make up the input
C28_ZeroOverlapTiles ==
    (HasReturned("chunk_with_metadata") /\ call.method = "characters"
        /\ chunk_overlap = 0) =>
        /\ \A k \in 1..Len(call.meta) :
               LET record == call.meta[k]
               IN  /\ record.chunk_id = k - 1
                   /\ record.start_position = (k - 1) * chunk_size
                   /\ record.end_position = Min(k * chunk_size, Len(doc_text))
                   /\ record.text = SubSeq(doc_text, record.start_position + 1,
                                          record.end_position)
                   /\ record.length = Len(record.text)
        /\ ConcatTexts(call.meta) = doc_text

\* two records with the same text, the second found where the cursor is
C28_Witness ==
    /\ HasReturned("chunk_with_metadata")
    /\ call.method = "characters"
    /\ chunk_overlap = 0
    /\ Len(call.meta) >= 2
    /\ call.meta[1].text = call.meta[2].text
    /\ call.meta[2].start_position = chunk_size

(***************************************************************************)
(* The end of the retry loops.                                             *)
(***************************************************************************)
ExhaustionMessages ==
    {"Maximum retry attempts failed for Gemini API",
     "Maximum retry attempts failed for GPT API"}

\* the envelope carries the generic exhaustion error
ExhaustionReported ==
    /\ Returned
    /\ Envelope.error.some
    /\ Envelope.error.val \in ExhaustionMessages

\* the prompt template renders, so that a retry routine is called
PromptRenders == format(user_prompt_template, article_text).ok

\* control stands after a retry loop that made all its rounds
AfterRetryLoop == pc = "attempt" /\ attempt >= max_retries

\* C29: the generic exhaustion error is raised only when max_retries <= 0,
\* and then extract_structure makes no provider call and no sleep and
\* returns a failure envelope; with max_retries >= 1 the code after the loop
\* is never reached: the loop is left by the return of a response or by the
\* provider's own error
C29_ExhaustionOnlyWithoutRetries ==
    /\ ExhaustionReported =>
           /\ max_retries <= 0
           /\ ~Envelope.success
           /\ ~last_exception.some
    /\ max_retries <= 0 =>
           /\ log = <<>>
           /\ Done => Returned /\ ~Envelope.success
           /\ (Done /\ PromptRenders) => ExhaustionReported
    /\ max_retries >= 1 =>
           /\ ~AfterRetryLoop
           /\ (Done /\ PromptRenders) =>
                  /\ NumCalls >= 1
                  /\ LET final == Calls[NumCalls]
                     IN  IF final.raised
                         THEN /\ Returned
                              /\ Envelope.error = SomeStr(final.msg)
                         ELSE response = final.text

\* a call with max_retries = 0 returned the exhaustion error
C29_Witness ==
    /\ ExhaustionReported
    /\ max_retries = 0
    /\ log = <<>>
    /\ Envelope.retry_count = 0

\* two threads are calling get_chunks_by_token_limit
ThreadsRun == DOMAIN thread_pc = Threads

\* thread t is past its chunking call
HasChunked(t) == thread_pc[t] \in {"loops", "finally", "done"}

\* C30: when two threads call get_chunks_by_token_limit on one TextChunker
\* with different max_tokens, in any interleaving each call chunks with the
\* size derived from its own max_tokens, and when both have returned
\* chunk_size is the value the constructor stored
C30_CallsDoNotInterfere ==
    ThreadsRun =>
        /\ \A t \in Threads :
               HasChunked(t) =>
                   thread_frame[t].used_size
                       = EstimatedCharLimit(thread_frame[t].max_tokens)
        /\ (\A t \in Threads : thread_pc[t] = "done") =>
               chunk_size = arg_chunk_size
=============================================================================
